---- MODULE Spec2Model ----
(***************************************************************************)
(* Battery Notifier (src/battery_notifier.py): the settings store          *)
(* (load_settings / save_settings), the alert loop (main_loop) and the     *)
(* settings dialog (open_settings_window / save_and_close).                *)
(*                                                                         *)
(* JSON / Python values are records [kind, v]:                             *)
(*   int n -> ("int", n);  true/false -> ("bool", 1/0);                    *)
(*   a string of digits "n" -> ("numstr", n);                              *)
(*   any other string, e.g. "fast" -> ("str", 0);  null -> ("null", 0);    *)
(*   a key that the document does not hold -> ("missing", 0).              *)
(***************************************************************************)
EXTENDS Integers, FiniteSets, Sequences, TLC

VARIABLES
    file,        \* content of settings.json
    SETTINGS,    \* module global SETTINGS (line 105)
    pc,          \* position of the process
    \* ---- main_loop
    last_alert,  \* local last_alert: "none" (None), "low", "high"
    batt,        \* outcome of psutil.sensors_battery() in the last tick
    fired,       \* notification attempted in the last tick
    raised,      \* exception caught in the last tick: "none", "read", "compare", "notify"
    slept,       \* seconds of the last time.sleep
    run,         \* history: category of the most recent available sample
    held,        \* history: last_alert when the current stretch of unavailable reads began
    prevAlert,   \* history: last_alert when the last tick began
    pending,     \* history: category whose latest notification attempt raised and was not retried since
    \* ---- open_settings_window
    s,           \* the dialog's record s (line 115)
    low_var, high_var, poll_var,   \* tk.IntVar contents
    start_with_windows_var,        \* tk.BooleanVar content: "true", "false", "invalid"
    outcome,     \* how the last save_and_close ended
    enableCalls, disableCalls,     \* calls of enable_auto_startup / disable_auto_startup
    shortcut,    \* the startup shortcut exists
    attempts,    \* number of Save clicks so far
    loaded,      \* history: s["start_with_windows"] as loaded at dialog open
    cbFixed,     \* history: every Save so far saw the same checkbox value
    validated    \* history: some Save got past reading the four widgets

loopVars == <<last_alert, batt, fired, raised, slept, run, held, prevAlert, pending>>
uiVars   == <<s, low_var, high_var, poll_var, start_with_windows_var, outcome,
              enableCalls, disableCalls, shortcut, attempts, loaded, cbFixed, validated>>
vars     == <<file, SETTINGS, pc, loopVars, uiVars>>

Max(a, b) == IF a >= b THEN a ELSE b
Min(a, b) == IF a <= b THEN a ELSE b

----------------------------------------------------------------------------
(* Values *)

IntV(n)    == [kind |-> "int", v |-> n]
BoolV(b)   == [kind |-> "bool", v |-> IF b THEN 1 ELSE 0]
NumStrV(n) == [kind |-> "numstr", v |-> n]
StrV       == [kind |-> "str", v |-> 0]
NullV      == [kind |-> "null", v |-> 0]
Missing    == [kind |-> "missing", v |-> 0]

Keys    == {"low_threshold", "high_threshold", "poll_seconds", "start_with_windows"}
AllKeys == Keys \cup {"theme"}

DEFAULT_LOW  == 20
DEFAULT_HIGH == 80
DEFAULT_POLL == 60

DEFAULTS ==
    [k \in Keys |->
        CASE k = "low_threshold"      -> IntV(DEFAULT_LOW)
          [] k = "high_threshold"     -> IntV(DEFAULT_HIGH)
          [] k = "poll_seconds"       -> IntV(DEFAULT_POLL)
          [] k = "start_with_windows" -> BoolV(TRUE)]

\* Python's int(x)
PyInt(x) ==
    IF x.kind \in {"int", "bool", "numstr"}
    THEN [ok |-> TRUE, n |-> x.v]
    ELSE [ok |-> FALSE, n |-> 0]

\* an int can be ordered against x (int and bool) without a TypeError
PyComparable(x) == x.kind \in {"int", "bool"}

\* Python's  b != x  for a bool b
PyNe(b, x) ==
    IF x.kind \in {"int", "bool"} THEN x.v # (IF b THEN 1 ELSE 0) ELSE TRUE

----------------------------------------------------------------------------
(* Settings store *)

EmptyDoc == [k \in AllKeys |-> Missing]

\* json.load inside the try of load_settings: the dict it yields, {} on any exception
JsonData(f) == IF f.kind = "object" THEN f.doc ELSE EmptyDoc

\* cfg[k] = v, line 97: the persisted value replaces the default, whatever its kind
Overlay(dflt, v) == v

\* load_settings(): raised is an exception escaping to the caller
LoadSettings(f) ==
    IF f.kind = "nonobject"
    THEN [raised |-> TRUE, cfg |-> DEFAULTS]
    ELSE [raised |-> FALSE,
          cfg |-> [k \in Keys |->
                      IF JsonData(f)[k] # Missing
                      THEN Overlay(DEFAULTS[k], JsonData(f)[k])
                      ELSE DEFAULTS[k]]]

\* json.dump(s): the document written holds exactly the keys of s
SavedFile(rec) ==
    [kind |-> "object",
     doc |-> [k \in AllKeys |-> IF k \in Keys THEN rec[k] ELSE Missing]]

----------------------------------------------------------------------------
(* Input sets *)

\* values a settings.json may hold for a key
FileVals(k) ==
    CASE k = "low_threshold"      -> {Missing, IntV(15), StrV, NullV}
      [] k = "high_threshold"     -> {Missing, IntV(90), BoolV(TRUE), NullV}
      [] k = "poll_seconds"       -> {Missing, IntV(3), BoolV(TRUE), NumStrV(30), StrV, NullV}
      [] k = "start_with_windows" -> {Missing, BoolV(TRUE), BoolV(FALSE), IntV(1), StrV, NullV}
      [] k = "theme"              -> {Missing, StrV}

Docs ==
    [low_threshold : FileVals("low_threshold"),
     high_threshold : FileVals("high_threshold"),
     poll_seconds : FileVals("poll_seconds"),
     start_with_windows : FileVals("start_with_windows"),
     theme : FileVals("theme")]

Files ==
    {[kind |-> "absent", doc |-> EmptyDoc],
     [kind |-> "unreadable", doc |-> EmptyDoc],
     [kind |-> "nonobject", doc |-> EmptyDoc]}
    \cup {[kind |-> "object", doc |-> d] : d \in Docs}

\* rounded percent of a battery reading
PercentSamples == {15, 20, 21, 79, 80, 90}

Unavailable == [kind |-> "unavailable", percent |-> 0, charging |-> FALSE]
ReadError   == [kind |-> "error", percent |-> 0, charging |-> FALSE]
NoRead      == [kind |-> "init", percent |-> 0, charging |-> FALSE]
Samples     == [kind : {"sample"}, percent : PercentSamples, charging : BOOLEAN]
ReadOutcomes == {Unavailable, ReadError} \cup Samples

----------------------------------------------------------------------------
(* main_loop *)

\* changed: the backoff is as long as the default poll interval
BACKOFF_Long == DEFAULT_POLL

\* time.sleep(10), line 194
BACKOFF  == 10
MIN_POLL == 5

\* the clamps of save_and_close, lines 142-144
PCT_MIN  == 1
PCT_MAX  == 100
POLL_MIN == 5
POLL_MAX == 600

\* max(5, int(SETTINGS.get("poll_seconds", 60))), line 219; ok = FALSE when int() raises
PollDelay(cfg) ==
    LET i == PyInt(cfg["poll_seconds"])
    IN  IF i.ok THEN [ok |-> TRUE, n |-> Max(MIN_POLL, i.n)]
        ELSE [ok |-> FALSE, n |-> 0]

\* changed: no comparison with last_alert, every poll in the band notifies
ShouldNotify_Always(alert, cat) == TRUE

\* last_alert != "low" / last_alert != "high", lines 201 and 208
ShouldNotify(alert, cat) == alert # cat

\* changed: last_alert is assigned before the notification is shown
AfterNotify_Always(alert, cat, notifyOk) == cat

\* lines 202-206 / 209-213: the assignment follows the notification call
AfterNotify(alert, cat, notifyOk) == IF notifyOk THEN cat ELSE alert

\* changed: the else branch leaves last_alert alone
ElseAlert_Keep(alert) == alert

\* line 215
ElseAlert(alert) == "none"

\* changed: an unavailable read clears last_alert
UnavailableAlert_Reset(alert) == "none"

\* lines 193-195: last_alert is not touched
UnavailableAlert(alert) == alert

\* lines 200-215 for a sample b: [alert, fired, raised]
Branch(cfg, alert, b, cat, notifyOk) ==
    IF ShouldNotify(alert, cat)
    THEN [alert |-> AfterNotify(alert, cat, notifyOk), fired |-> cat,
          raised |-> IF notifyOk THEN "none" ELSE "notify"]
    ELSE [alert |-> alert, fired |-> "none", raised |-> "none"]

Evaluate(cfg, alert, b, notifyOk) ==
    LET low  == cfg["low_threshold"]
        high == cfg["high_threshold"]
        err  == [alert |-> alert, fired |-> "none", raised |-> "compare"]
    IN  IF ~b.charging
        THEN IF ~PyComparable(low) THEN err
             ELSE IF b.percent <= low.v THEN Branch(cfg, alert, b, "low", notifyOk)
             ELSE [alert |-> ElseAlert(alert), fired |-> "none", raised |-> "none"]
        ELSE IF ~PyComparable(high) THEN err
             ELSE IF b.percent >= high.v THEN Branch(cfg, alert, b, "high", notifyOk)
             ELSE [alert |-> ElseAlert(alert), fired |-> "none", raised |-> "none"]

\* the body of the try, lines 192-215
TryBody(cfg, alert, r, notifyOk) ==
    CASE r.kind = "unavailable" ->
            [alert |-> UnavailableAlert(alert), fired |-> "none", raised |-> "none"]
      [] r.kind = "error" ->
            [alert |-> alert, fired |-> "none", raised |-> "read"]
      [] OTHER -> Evaluate(cfg, alert, r, notifyOk)

\* the conditions of the two alerts, for thresholds that can be compared
LowCond(cfg, b) ==
    /\ b.kind = "sample" /\ ~b.charging
    /\ PyComparable(cfg["low_threshold"]) /\ b.percent <= cfg["low_threshold"].v
HighCond(cfg, b) ==
    /\ b.kind = "sample" /\ b.charging
    /\ PyComparable(cfg["high_threshold"]) /\ b.percent >= cfg["high_threshold"].v
Cat(cfg, b) ==
    IF LowCond(cfg, b) THEN "low" ELSE IF HighCond(cfg, b) THEN "high" ELSE "none"

NoStretch == "nostretch"

\* one iteration of the while loop, lines 190-219
Tick(r, notifyOk) ==
    /\ pc = "main_loop"
    /\ LET e == TryBody(SETTINGS, last_alert, r, notifyOk)
           d == PollDelay(SETTINGS)
       IN  /\ batt' = r
           /\ last_alert' = e.alert
           /\ fired' = e.fired
           /\ raised' = e.raised
           /\ IF r.kind = "unavailable"
              THEN slept' = BACKOFF /\ pc' = pc
              ELSE IF d.ok THEN slept' = d.n /\ pc' = pc
                   ELSE slept' = 0 /\ pc' = "crashed"
           /\ run' = IF r.kind = "sample" THEN Cat(SETTINGS, r) ELSE run
           /\ held' = CASE r.kind = "unavailable" ->
                              IF held = NoStretch THEN last_alert ELSE held
                        [] r.kind = "error" -> held
                        [] OTHER -> NoStretch
           /\ prevAlert' = last_alert
           /\ pending' = IF e.fired = "none" THEN pending
                         ELSE IF e.raised = "notify" THEN e.fired ELSE "none"
    /\ UNCHANGED <<file, SETTINGS, uiVars>>

----------------------------------------------------------------------------
(* Idle values of the parts a specification does not run *)

LoopIdle ==
    /\ last_alert = "none" /\ batt = NoRead /\ fired = "none" /\ raised = "none"
    /\ slept = 0 /\ run = "none" /\ held = NoStretch
    /\ prevAlert = "none" /\ pending = "none"

UiIdle ==
    /\ s = DEFAULTS
    /\ low_var = Missing /\ high_var = Missing /\ poll_var = Missing
    /\ start_with_windows_var = "invalid"
    /\ outcome = "none" /\ enableCalls = 0 /\ disableCalls = 0
    /\ shortcut = FALSE /\ attempts = 0
    /\ loaded = Missing /\ cbFixed = TRUE /\ validated = FALSE

\* records the settings dialog writes: poll_seconds is clamped to 5..600, line 144
StoredPolls == {IntV(n) : n \in POLL_MIN..POLL_MAX}
StoredFiles ==
    {SavedFile([DEFAULTS EXCEPT !["poll_seconds"] = p]) : p \in StoredPolls}

\* files the alert loop is started on: the loop reads the two thresholds and poll_seconds
LoopFiles ==
    {f \in Files : f.kind # "object" \/
        (f.doc["start_with_windows"] = Missing /\ f.doc["theme"] = Missing)}

\* the process at the top of main_loop, line 187: SETTINGS was loaded at import (line 105)
InitLoop ==
    /\ file \in {f \in LoopFiles : ~LoadSettings(f).raised}
    /\ SETTINGS = LoadSettings(file).cfg
    /\ pc = "main_loop"
    /\ LoopIdle /\ UiIdle

\* show_notification_messagebox (lines 107-111) returns or raises, when it is called
NotifyOutcomes(r) ==
    IF TryBody(SETTINGS, last_alert, r, TRUE).fired = "none" THEN {TRUE} ELSE BOOLEAN

NextLoop == \E r \in ReadOutcomes : \E ok \in NotifyOutcomes(r) : Tick(r, ok)

SpecLoop == InitLoop /\ [][NextLoop]_vars

\* the loop started on a record the settings dialog wrote
InitStored ==
    /\ file \in StoredFiles
    /\ SETTINGS = LoadSettings(file).cfg
    /\ pc = "main_loop"
    /\ LoopIdle /\ UiIdle

SpecStored == InitStored /\ [][NextLoop]_vars

\* the same loop with a notifier that never raises
NextReliable == \E r \in ReadOutcomes : Tick(r, TRUE)

SpecReliable == InitLoop /\ [][NextReliable]_vars

----------------------------------------------------------------------------
(* Module import, line 105: SETTINGS = load_settings() *)

Unset == [k \in Keys |-> Missing]

InitLoad ==
    /\ file \in Files
    /\ SETTINGS = Unset
    /\ pc = "import"
    /\ LoopIdle /\ UiIdle

Import ==
    /\ pc = "import"
    /\ LET r == LoadSettings(file)
       IN  IF r.raised
           THEN pc' = "crashed" /\ SETTINGS' = SETTINGS
           ELSE pc' = "imported" /\ SETTINGS' = r.cfg
    /\ UNCHANGED <<file, loopVars, uiVars>>

SpecLoad == InitLoad /\ [][Import]_vars

----------------------------------------------------------------------------
(* open_settings_window *)

MaxAttempts == 2

\* changed: the upper limit is not applied
Clamp_LowerOnly(lo, hi, x) == Max(lo, x)

\* max(lo, min(hi, x)), lines 142-144
Clamp(lo, hi, x) == Max(lo, Min(hi, x))

\* changed: the flag is not compared with the previous value
FlagChanged_Always(cb, old) == TRUE

\* start_with_windows_var.get() != s["start_with_windows"], line 146
FlagChanged(cb, old) == PyNe(cb, old)

\* tk.BooleanVar(value=v): what get() will yield
CheckboxOf(v) ==
    CASE v.kind \in {"bool", "int", "numstr"} -> IF v.v # 0 THEN "true" ELSE "false"
      [] v.kind = "null" -> "false"
      [] OTHER -> "invalid"

BadText == StrV

\* lines 113-138: s = load_settings(), then the widgets' variables
OpenSettingsWindow ==
    /\ pc = "open_settings"
    /\ LET rec == LoadSettings(file).cfg
       IN  /\ s' = rec
           /\ loaded' = rec["start_with_windows"]
           /\ IF /\ PyInt(rec["low_threshold"]).ok
                 /\ PyInt(rec["high_threshold"]).ok
                 /\ PyInt(rec["poll_seconds"]).ok
              THEN /\ low_var' = IntV(PyInt(rec["low_threshold"]).n)
                   /\ high_var' = IntV(PyInt(rec["high_threshold"]).n)
                   /\ poll_var' = IntV(PyInt(rec["poll_seconds"]).n)
                   /\ start_with_windows_var' = CheckboxOf(rec["start_with_windows"])
                   /\ pc' = "dialog"
              ELSE /\ UNCHANGED <<low_var, high_var, poll_var, start_with_windows_var>>
                   /\ pc' = "crashed"
    /\ UNCHANGED <<file, SETTINGS, loopVars, outcome, enableCalls, disableCalls,
                   shortcut, attempts, cbFixed, validated>>

\* lines 142-144: the record after the three assignments, and whether a TclError cut them short
Numbers(rec, lowIn, highIn, pollIn) ==
    LET s1 == [rec EXCEPT !["low_threshold"] = IntV(Clamp(PCT_MIN, PCT_MAX, lowIn.v))]
        s2 == [s1 EXCEPT !["high_threshold"] = IntV(Clamp(PCT_MIN, PCT_MAX, highIn.v))]
        s3 == [s2 EXCEPT !["poll_seconds"] = IntV(Clamp(POLL_MIN, POLL_MAX, pollIn.v))]
    IN  CASE lowIn.kind # "int"  -> [ok |-> FALSE, rec |-> rec]
          [] highIn.kind # "int" -> [ok |-> FALSE, rec |-> s1]
          [] pollIn.kind # "int" -> [ok |-> FALSE, rec |-> s2]
          [] OTHER               -> [ok |-> TRUE, rec |-> s3]

\* the Save button, lines 140-159, on the widget contents the user left
SaveAndClose(lowIn, highIn, pollIn, cbIn, io, regOk) ==
    /\ pc = "dialog"
    /\ attempts < MaxAttempts
    /\ attempts' = attempts + 1
    /\ low_var' = lowIn /\ high_var' = highIn /\ poll_var' = pollIn
    /\ start_with_windows_var' = cbIn
    /\ cbFixed' = (attempts = 0 \/ (cbFixed /\ cbIn = start_with_windows_var))
    /\ loaded' = loaded
    /\ LET num == Numbers(s, lowIn, highIn, pollIn)
           cb  == (cbIn = "true")
           chg == FlagChanged(cb, num.rec["start_with_windows"])
           s4  == IF chg THEN [num.rec EXCEPT !["start_with_windows"] = BoolV(cb)]
                  ELSE num.rec
       IN  IF ~num.ok
           THEN /\ outcome' = "invalid_input"
                /\ s' = num.rec
                /\ UNCHANGED <<file, SETTINGS, pc, enableCalls, disableCalls,
                               shortcut, validated>>
           ELSE IF cbIn = "invalid"
           THEN /\ outcome' = "error"
                /\ s' = num.rec
                /\ UNCHANGED <<file, SETTINGS, pc, enableCalls, disableCalls,
                               shortcut, validated>>
           ELSE /\ s' = s4
                /\ validated' = TRUE
                /\ enableCalls' = IF chg /\ cb THEN enableCalls + 1 ELSE enableCalls
                /\ disableCalls' = IF chg /\ ~cb THEN disableCalls + 1 ELSE disableCalls
                /\ shortcut' = IF chg /\ regOk THEN cb ELSE shortcut
                /\ CASE io = "ok" ->
                            /\ file' = SavedFile(s4)
                            /\ SETTINGS' = s4
                            /\ outcome' = "saved"
                            /\ pc' = "closed"
                     [] io = "open_fails" ->
                            /\ outcome' = "error"
                            /\ UNCHANGED <<file, SETTINGS, pc>>
                     [] OTHER ->
                            /\ file' = [kind |-> "unreadable", doc |-> EmptyDoc]
                            /\ outcome' = "error"
                            /\ UNCHANGED <<SETTINGS, pc>>
    /\ UNCHANGED loopVars

\* the Cancel button, line 163
Cancel ==
    /\ pc = "dialog"
    /\ pc' = "closed"
    /\ UNCHANGED <<file, SETTINGS, loopVars, uiVars>>

Row(a, b, c) == [low |-> IntV(a), high |-> IntV(b), poll |-> IntV(c)]

\* what the user leaves in the three number fields
InputRows ==
    {Row(0, 0, 2), Row(1, 100, 5), Row(100, 1, 600), Row(101, 250, 601),
     Row(0 - 7, 50, 0), Row(20, 80, 60),
     [low |-> BadText, high |-> IntV(50), poll |-> IntV(60)],
     [low |-> IntV(0), high |-> BadText, poll |-> IntV(60)],
     [low |-> IntV(30), high |-> IntV(70), poll |-> BadText]}
    \cup {[low |-> low_var, high |-> high_var, poll |-> poll_var]}

CheckboxInputs == {"true", "false", start_with_windows_var}

IoOutcomes == {"ok", "open_fails", "write_fails"}

\* files the dialog is opened on
UiFiles ==
    {f \in Files : f.kind # "object" \/
        (/\ f.doc["low_threshold"] \in {Missing, IntV(15)}
         /\ f.doc["high_threshold"] = Missing
         /\ f.doc["poll_seconds"] \in {Missing, StrV})}

\* the process at the call of open_settings_window, line 223
InitUi ==
    /\ file \in {f \in UiFiles : ~LoadSettings(f).raised}
    /\ SETTINGS = LoadSettings(file).cfg
    /\ pc = "open_settings"
    /\ LoopIdle /\ UiIdle

NextUi ==
    \/ OpenSettingsWindow
    \/ \E row \in InputRows, cbIn \in CheckboxInputs, io \in IoOutcomes, regOk \in BOOLEAN :
          SaveAndClose(row.low, row.high, row.poll, cbIn, io, regOk)
    \/ Cancel

SpecUi == InitUi /\ [][NextUi]_vars

----------------------------------------------------------------------------
(* Properties of main_loop *)

Cats == {"low", "high"}

\* both thresholds are values an integer percent can be compared with
NumericThresholds ==
    PyComparable(SETTINGS["low_threshold"]) /\ PyComparable(SETTINGS["high_threshold"])

\* C1: with fixed numeric thresholds and a notifier that does not fail, a poll
\* whose sample satisfies the condition of category c fires the c notification
\* exactly when the most recent available sample before it did not satisfy c
\* (the poll is the first of a run), and fires nothing when it did (a later
\* poll of the run, unavailable reads in between included); it never fires
\* the other category.
C1_Dedup ==
    [][\A c \in Cats :
          (NumericThresholds /\ batt'.kind = "sample" /\ Cat(SETTINGS, batt') = c)
          => /\ fired' = (IF run # c THEN c ELSE "none")
             /\ last_alert' = c]_vars

\* a later poll of a low run fired nothing
C1_Witness ==
    /\ NumericThresholds /\ Cat(SETTINGS, batt) = "low" /\ run = "low"
    /\ prevAlert = "low" /\ last_alert = "low" /\ fired = "none"

\* C2: with numeric thresholds, a poll whose available sample satisfies neither
\* condition sets the alert state to none and fires nothing, whatever the state
\* was; and the next poll whose sample satisfies a condition fires that
\* category's notification.
C2_NeutralReset ==
    [][NumericThresholds =>
          /\ (batt'.kind = "sample" /\ Cat(SETTINGS, batt') = "none")
                => (last_alert' = "none" /\ fired' = "none" /\ raised' = "none")
          /\ \A c \in Cats :
                (run = "none" /\ batt'.kind = "sample" /\ Cat(SETTINGS, batt') = c)
                => fired' = c]_vars

\* a neutral sample cleared a low alert state
C2_Witness ==
    /\ NumericThresholds /\ batt.kind = "sample" /\ Cat(SETTINGS, batt) = "none"
    /\ prevAlert = "low" /\ last_alert = "none" /\ fired = "none"

\* C3: the loop is never fatal: every error of a tick is caught, the tick ends
\* with the normal poll delay, and the loop goes on.
C3_NeverFatal ==
    /\ pc # "crashed"
    /\ raised # "none" => (PollDelay(SETTINGS).ok /\ slept = PollDelay(SETTINGS).n)

\* C8: a tick whose battery read is unavailable fires nothing and leaves the
\* alert state as it was, and the loop goes on; the alert state held when
\* a stretch of unavailable reads began is held throughout it, and the first
\* available sample after it that satisfies the same condition fires nothing.
C8_UnavailableSkip ==
    [][/\ batt'.kind = "unavailable"
            => /\ fired' = "none" /\ raised' = "none"
               /\ last_alert' = last_alert
               /\ last_alert' = held'
               /\ pc' = pc
       /\ \A c \in Cats :
            (held = c /\ batt'.kind = "sample" /\ Cat(SETTINGS, batt') = c)
            => (fired' = "none" /\ last_alert' = c)]_vars

\* an unavailable read left a low alert state in place
C8_Witness ==
    /\ batt.kind = "unavailable" /\ held = "low" /\ last_alert = "low"
    /\ prevAlert = "low" /\ fired = "none"

StoredPoll(lo) ==
    /\ SETTINGS["poll_seconds"].kind = "int"
    /\ SETTINGS["poll_seconds"].v \in lo..POLL_MAX

\* C9 as stated: for every poll_seconds in 5..600 the delay after an
\* unavailable read is strictly shorter than the delay after a normal tick.
C9_BackoffShorter ==
    (StoredPoll(POLL_MIN) /\ batt.kind = "unavailable")
    => slept < PollDelay(SETTINGS).n

\* C9 amended: for every poll_seconds in 11..600 the delay after an unavailable
\* read, 10 seconds, is strictly shorter than the delay after a normal tick,
\* max(5, poll_seconds).
C9_BackoffShorterAbove10 ==
    (StoredPoll(11) /\ batt.kind # "init")
    => IF batt.kind = "unavailable"
       THEN slept < Max(5, SETTINGS["poll_seconds"].v)
       ELSE slept = Max(5, SETTINGS["poll_seconds"].v)

C9_Witness ==
    /\ StoredPoll(11) /\ SETTINGS["poll_seconds"].v = 11
    /\ batt.kind = "unavailable" /\ slept = 10

\* C10: the alert state becomes low (high) only in a tick whose low (high)
\* notification was displayed without error; when the display raises the alert
\* state keeps its value, and the next poll whose sample satisfies the same
\* condition attempts the notification again.
C10_FailedNotRecorded ==
    [][/\ raised' = "notify" => (fired' # "none" /\ last_alert' = last_alert)
       /\ \A c \in Cats :
            /\ (last_alert' = c /\ last_alert # c)
                  => (fired' = c /\ raised' = "none")
            /\ (pending = c /\ batt'.kind = "sample" /\ Cat(SETTINGS, batt') = c)
                  => fired' = c]_vars

\* the display of a low notification raised and the alert state stayed none
C10_Witness ==
    /\ Cat(SETTINGS, batt) = "low" /\ fired = "low" /\ raised = "notify"
    /\ prevAlert = "none" /\ last_alert = "none" /\ pending = "low"

----------------------------------------------------------------------------
(* Properties of load_settings *)

\* the value settings.json holds for key k, Missing when it holds none
Persisted(f, k) == IF f.kind = "object" THEN f.doc[k] ELSE Missing

\* C4: load_settings never raises, whatever settings.json holds, and returns a
\* record of exactly the four keys in which a field the file holds has the
\* persisted value and a field it does not hold has its default.
C4_LoadNeverRaises ==
    pc # "import"
    => /\ pc = "imported"
       /\ DOMAIN SETTINGS = Keys
       /\ \A k \in Keys :
             SETTINGS[k] = IF Persisted(file, k) # Missing
                           THEN Persisted(file, k) ELSE DEFAULTS[k]

\* C5: a persisted value whose kind is not the kind of the key's default
\* (integer for the three numbers, boolean for start_with_windows) is
\* discarded and the default is kept.
C5_KindCheck ==
    pc = "imported"
    => \A k \in Keys :
          (Persisted(file, k) # Missing /\ Persisted(file, k).kind # DEFAULTS[k].kind)
          => SETTINGS[k] = DEFAULTS[k]

----------------------------------------------------------------------------
(* Properties of the settings dialog *)

\* C6: the record a Save writes holds min(100, max(1, x)) for the two
\* thresholds and min(600, max(5, x)) for poll_seconds, x being the integer
\* entered in the field, so the three stored numbers lie in 1..100, 1..100 and
\* 5..600.
C6_ClampOnSave ==
    outcome = "saved"
    => /\ file.kind = "object"
       /\ file.doc["low_threshold"] = IntV(Min(100, Max(1, low_var.v)))
       /\ file.doc["high_threshold"] = IntV(Min(100, Max(1, high_var.v)))
       /\ file.doc["poll_seconds"] = IntV(Min(600, Max(5, poll_var.v)))
       /\ file.doc["low_threshold"].v \in 1..100
       /\ file.doc["high_threshold"].v \in 1..100
       /\ file.doc["poll_seconds"].v \in 5..600
       /\ SETTINGS = s

\* entering low_threshold 0 and poll_seconds 2 stored 1 and 5
C6_Witness ==
    /\ outcome = "saved" /\ low_var = IntV(0) /\ poll_var = IntV(2)
    /\ file.doc["low_threshold"] = IntV(1) /\ file.doc["poll_seconds"] = IntV(5)

Calls == enableCalls + disableCalls

\* the checkbox shows a value other than v
CheckboxDiffers(v) ==
    start_with_windows_var = "invalid" \/ PyNe(start_with_windows_var = "true", v)

\* C7 as stated, for the sessions that end with a successful Save: exactly one
\* startup registration call was made when the checkbox value differs from the
\* loaded start_with_windows value, enable for true and disable for false, and
\* none when it does not differ.
C7_OneCallPerSession ==
    (pc = "closed" /\ outcome = "saved" /\ loaded.kind = "bool")
    => IF CheckboxDiffers(loaded)
       THEN /\ Calls = 1
            /\ enableCalls = (IF start_with_windows_var = "true" THEN 1 ELSE 0)
       ELSE Calls = 0

\* C7 amended: over a dialog session whose Save attempts all see the same
\* checkbox value, exactly one startup registration call is made, enable for
\* true and disable for false, when that value is not equal to the loaded
\* start_with_windows value and some Save attempt got past reading the
\* widgets; otherwise none is made.
C7_OneCallPerChange ==
    (attempts > 0 /\ cbFixed)
    => IF validated /\ CheckboxDiffers(loaded)
       THEN /\ Calls = 1
            /\ enableCalls = (IF start_with_windows_var = "true" THEN 1 ELSE 0)
       ELSE Calls = 0

\* false -> true saved at the second attempt, after a first that failed to write
C7_Witness ==
    /\ pc = "closed" /\ outcome = "saved" /\ attempts = 2 /\ cbFixed
    /\ loaded = BoolV(FALSE) /\ start_with_windows_var = "true"
    /\ enableCalls = 1 /\ disableCalls = 0

====
